---- MODULE Spec2Model ----
(***************************************************************************)
(* A model of icon_changer.py: the dominant colour analyzer, the book-icon *)
(* compositor, the embedded-resource icon extractor with its OS handles,   *)
(* the backup ledger file and the apply / revert batch runs.               *)
(*                                                                         *)
(* Text (icon paths, "path,index" ledger strings) is a sequence of         *)
(* one-character strings, so that formatting, split, rsplit, strip and     *)
(* int() are computed, not assumed.                                        *)
(***************************************************************************)
EXTENDS Integers, Sequences, FiniteSets, TLC

VARIABLES
    \* --- get_dominant_color ------------------------------------------------
    an_pc,          \* "ready" | "done"
    an_colors,      \* what colorgram.extract returned: Seq of [rgb, proportion]
    an_result,      \* the colour returned, or None
    \* --- create_colored_book_icon -------------------------------------------
    cp_pc,          \* "ready" | "done"
    cp_template,    \* [width, height, data]: the RGBA template bitmap
    cp_target,      \* target_color_rgb
    cp_out,         \* modified_template, or None when the function returned False
    cp_ok,          \* the function's return value
    \* --- extract_icon_image, the .exe/.dll branch ---------------------------
    ex_pc,              \* the next OS call, "finally", or "returned"
    ex_large,           \* large_icons, a sequence of icon handles
    ex_small,           \* small_icons
    ex_hicon,           \* hicon (0 is None)
    ex_icons_to_destroy,\* icons_to_destroy
    ex_hdc,             \* hdc (0 is None)
    ex_hdc_mem,         \* hdc_mem (0 is None)
    ex_hbmp,            \* hbmp (0 is None / a null handle)
    ex_image,           \* image, set once the pixels are read back
    ex_live,            \* the OS handles this call acquired and has not released
    ex_result,          \* what the call returned: None or "image"
    \* --- the environment of apply_book_icons and revert_icons ----------------
    template_exists,    \* os.path.exists(TEMPLATE_PATH)
    sc_present,         \* the shortcuts whose .lnk file is on the desktop
    sc_icon,            \* each shortcut's icon_location
    gen_files,          \* the files under GENERATED_ICONS_DIR
    backup_file,               \* BACKUP_FILE on disk
    \* --- one run of the script ------------------------------------------------
    pc,                 \* "idle", "apply_loop", "revert_loop", or how a run ended
    runs,               \* runs finished so far
    faults,             \* failures of the environment so far
    shortcuts,          \* the list get_desktop_shortcuts returned
    pos,                \* position of the loop in shortcuts / in backup_data
    backup_data,        \* the in-memory ledger
    processed_count, skipped_count, reverted_count, failed_count,
    \* --- observations of the run (written, never read, by the program) -------
    orig_icon,          \* each shortcut's icon_location before the first run
    backed_up,          \* shortcuts whose ledger entry an apply run has written
    visits,             \* times each shortcut was visited in this apply run
    sc_outcome,         \* "DONE" / "SKIPPED" per shortcut in this apply run
    last_visit,         \* what the last loop iteration did
    rv_results,         \* "REVERTED" / "FAILED" per ledger entry in this revert run
    enumerated,         \* get_desktop_shortcuts was called in this run
    loaded,             \* load_backup was called in this run
    save_calls,         \* calls of save_backup in this run
    file_at_start, icon_at_start, gen_at_start,  \* the environment when the run began
    last_save,          \* "none", or how the latest save_backup call went
    file_before_save,   \* BACKUP_FILE just before the latest save_backup call
    saved_data          \* the mapping passed to the latest save_backup call

an_vars == <<an_pc, an_colors, an_result>>
cp_vars == <<cp_pc, cp_template, cp_target, cp_out, cp_ok>>
ex_vars == <<ex_pc, ex_large, ex_small, ex_hicon, ex_icons_to_destroy, ex_hdc,
             ex_hdc_mem, ex_hbmp, ex_image, ex_live, ex_result>>
env_vars == <<template_exists, sc_present, sc_icon, gen_files, backup_file>>
run_vars == <<pc, runs, faults, shortcuts, pos, backup_data, processed_count, skipped_count,
              reverted_count, failed_count>>
obs_vars == <<orig_icon, backed_up, visits, sc_outcome, last_visit, rv_results,
              enumerated, loaded, save_calls, file_at_start, icon_at_start,
              gen_at_start, last_save, file_before_save, saved_data>>
or_vars == <<env_vars, run_vars, obs_vars>>
vars == <<an_vars, cp_vars, ex_vars, or_vars>>

None == "None"

(***************************************************************************)
(* Bounds of the model.                                                    *)
(***************************************************************************)
MaxCand == 3        \* longest candidate list colorgram returns in the model
MaxW == 2           \* widest template
MaxH == 1           \* tallest template
MaxIcons == 2       \* most handles ExtractIconEx returns in each of its two lists
NumShortcuts == 2   \* shortcuts that may be on the desktop
MaxRuns == 2        \* apply / revert runs in one behaviour
MaxFaults == 2      \* failures of the environment (OS, disk, decoder) in one behaviour

(***************************************************************************)
(* Small arithmetic helpers.                                               *)
(***************************************************************************)
Abs(x) == IF x < 0 THEN -x ELSE x
Min2(a, b) == IF a < b THEN a ELSE b
Max2(a, b) == IF a > b THEN a ELSE b
Sum3(t) == t[1] + t[2] + t[3]
Min3(t) == Min2(t[1], Min2(t[2], t[3]))
Max3(t) == Max2(t[1], Max2(t[2], t[3]))

(***************************************************************************)
(* get_dominant_color, from the candidate list on.                         *)
(***************************************************************************)
\* The filter of the loop over colors: a candidate is appended to
\* suitable_colors exactly when this holds.
IsSuitableMut(c) == TRUE
IsSuitable(c) ==
    LET rgb == c.rgb
        is_grayscale == Abs(rgb[1] - rgb[2]) < 15 /\ Abs(rgb[2] - rgb[3]) < 15
        is_too_dark == Sum3(rgb) < 50
        is_too_light == Sum3(rgb) > 700
    IN  /\ ~is_grayscale /\ ~is_too_dark /\ ~is_too_light
        /\ Max3(rgb) - Min3(rgb) > 10

\* sorted(seq, key=proportion, reverse=True): a stable sort, so candidates of
\* equal proportion keep their order in seq (reverse=True keeps stability).
RECURSIVE InsertDescMut(_, _)
InsertDescMut(c, s) ==
    IF s = <<>> THEN <<c>>
    ELSE IF Head(s).proportion > c.proportion
         THEN <<Head(s)>> \o InsertDescMut(c, Tail(s))
         ELSE <<c>> \o s
RECURSIVE InsertDesc(_, _)
InsertDesc(c, s) ==
    IF s = <<>> THEN <<c>>
    ELSE IF Head(s).proportion >= c.proportion
         THEN <<Head(s)>> \o InsertDesc(c, Tail(s))
         ELSE <<c>> \o s
RECURSIVE SortedByProportionDesc(_)
SortedByProportionDesc(s) ==
    IF s = <<>> THEN <<>>
    ELSE LET rest == SortedByProportionDesc(SubSeq(s, 1, Len(s) - 1))
         IN  InsertDesc(s[Len(s)], rest)

get_dominant_color(colors) ==
    IF colors = <<>> THEN None
    ELSE LET suitable_colors == SelectSeq(colors, IsSuitable)
         IN  IF suitable_colors # <<>>
             THEN SortedByProportionDesc(suitable_colors)[1].rgb
             ELSE SortedByProportionDesc(colors)[1].rgb

\* Candidate colours of the model: a saturated red and a saturated blue, a mid
\* gray, a slate whose R-G and G-B differences are 14 but whose R-B difference
\* is 28, a dark and a light colour.
CandRgb == { <<200, 50, 50>>, <<50, 50, 200>>, <<128, 128, 128>>,
             <<100, 114, 128>>, <<20, 5, 5>>, <<255, 240, 210>> }
CandProportion == {1, 2}      \* in tenths of the image
Candidates == [rgb : CandRgb, proportion : CandProportion]
CandLists == UNION { [1..n -> Candidates] : n \in 0..MaxCand }

AnIdle == an_pc = "idle" /\ an_colors = <<>> /\ an_result = None
AnInit == an_pc = "ready" /\ an_colors \in CandLists /\ an_result = None

Analyze ==
    /\ an_pc = "ready"
    /\ an_result' = get_dominant_color(an_colors)
    /\ an_pc' = "done"
    /\ UNCHANGED an_colors

(***************************************************************************)
(* create_colored_book_icon.                                               *)
(***************************************************************************)
TEMPLATE_COVER_COLOR_RGB == <<106, 156, 66>>
COLOR_MATCH_TOLERANCE == 30

\* rgb_color_distance is sum((c1-c2)^2) ** 0.5.  The model keeps the sum of
\* squares; the only use of the distance is the comparison d < tolerance, and
\* for integer sums s and an integer t, s ** 0.5 < t exactly when s < t*t
\* (the float square root is monotone and exact on perfect squares).
rgb_color_distance_sq(color1, color2) ==
    (color1[1] - color2[1]) * (color1[1] - color2[1])
    + (color1[2] - color2[2]) * (color1[2] - color2[2])
    + (color1[3] - color2[3]) * (color1[3] - color2[3])
DistanceBelowMut(color1, color2, tol) ==
    rgb_color_distance_sq(color1, color2) <= tol * tol
DistanceBelow(color1, color2, tol) ==
    rgb_color_distance_sq(color1, color2) < tol * tol

Coords(w, h) == (0..(w - 1)) \X (0..(h - 1))

\* The pixel the double loop writes at one coordinate.
CompositePixel(current_pixel, target_color_rgb) ==
    LET current_rgb == SubSeq(current_pixel, 1, 3)
    IN  IF DistanceBelow(current_rgb, TEMPLATE_COVER_COLOR_RGB, COLOR_MATCH_TOLERANCE)
        THEN <<target_color_rgb[1], target_color_rgb[2], target_color_rgb[3],
               current_pixel[4]>>
        ELSE current_pixel

\* modified_template after the double loop: Image.new("RGBA", template.size)
\* with every pixel written once.
create_colored_book_icon(template, target_color_rgb) ==
    [ width |-> template.width, height |-> template.height,
      data |-> [ xy \in Coords(template.width, template.height) |->
                   CompositePixel(template.data[xy], target_color_rgb) ] ]

\* Template pixels of the model, by squared distance to the cover colour:
\* 0, 899, 900 (distance exactly 30), 901, and far away.
PixelPalette == { <<106, 156, 66, 255>>, <<135, 163, 69, 200>>,
                  <<136, 156, 66, 128>>, <<136, 157, 66, 255>>,
                  <<0, 0, 0, 0>> }
TargetPalette == { <<200, 50, 50>>, <<106, 156, 66>> }
Templates ==
    UNION { { [width |-> w, height |-> h, data |-> d] :
                d \in [Coords(w, h) -> PixelPalette] } :
            w \in 1..MaxW, h \in 1..MaxH }

CpIdle == /\ cp_pc = "idle" /\ cp_template = None /\ cp_target = None
          /\ cp_out = None /\ cp_ok = FALSE
CpInit == /\ cp_pc = "ready" /\ cp_template \in Templates
          /\ cp_target \in TargetPalette /\ cp_out = None /\ cp_ok = FALSE

\* The template is read, recoloured and the ICO written: returns True.
CompositeOk ==
    /\ cp_pc = "ready"
    /\ cp_out' = create_colored_book_icon(cp_template, cp_target)
    /\ cp_ok' = TRUE
    /\ cp_pc' = "done"
    /\ UNCHANGED <<cp_template, cp_target>>

\* Image.open or save raised: the except clauses return False.
CompositeFail ==
    /\ cp_pc = "ready"
    /\ cp_out' = None
    /\ cp_ok' = FALSE
    /\ cp_pc' = "done"
    /\ UNCHANGED <<cp_template, cp_target>>


(***************************************************************************)
(* extract_icon_image, the branch for .exe and .dll files.  One action per *)
(* OS call; each call either succeeds or fails the way the code provides   *)
(* for (an exception, a null handle, a zero result).                       *)
(***************************************************************************)
\* Handle values: icon handles are 101.. (large) and 201.. (small), the
\* screen DC is 1, the memory DC 2, the bitmap 3; 0 is None / null.
LargeHandles(n) == [i \in 1..n |-> 100 + i]
SmallHandles(n) == [i \in 1..n |-> 200 + i]
Range(s) == { s[i] : i \in 1..Len(s) }

ExIdle ==
    /\ ex_pc = "idle" /\ ex_large = <<>> /\ ex_small = <<>> /\ ex_hicon = 0
    /\ ex_icons_to_destroy = <<>> /\ ex_hdc = 0 /\ ex_hdc_mem = 0 /\ ex_hbmp = 0
    /\ ex_image = None /\ ex_live = {} /\ ex_result = None
ExInit ==
    /\ ex_pc = "ExtractIconEx" /\ ex_large = <<>> /\ ex_small = <<>> /\ ex_hicon = 0
    /\ ex_icons_to_destroy = <<>> /\ ex_hdc = 0 /\ ex_hdc_mem = 0 /\ ex_hbmp = 0
    /\ ex_image = None /\ ex_live = {} /\ ex_result = None

\* win32gui.ExtractIconEx raised: the function returns None, nothing acquired.
ExtractIconExFail ==
    /\ ex_pc = "ExtractIconEx"
    /\ ex_pc' = "returned"
    /\ ex_result' = None
    /\ UNCHANGED <<ex_large, ex_small, ex_hicon, ex_icons_to_destroy, ex_hdc,
                   ex_hdc_mem, ex_hbmp, ex_image, ex_live>>

\* ExtractIconEx returned nl large and ns small handles; hicon is chosen and
\* the other handles are queued in icons_to_destroy.  With no handle at all
\* the function returns None.
ExtractIconExOk ==
    /\ ex_pc = "ExtractIconEx"
    /\ \E nl \in 0..MaxIcons, ns \in 0..MaxIcons :
         LET large_icons == LargeHandles(nl)
             small_icons == SmallHandles(ns)
         IN  /\ ex_large' = large_icons
             /\ ex_small' = small_icons
             /\ ex_live' = Range(large_icons) \cup Range(small_icons)
             /\ IF large_icons # <<>>
                THEN /\ ex_hicon' = large_icons[1]
                     /\ ex_icons_to_destroy' = Tail(large_icons) \o small_icons
                     /\ ex_pc' = "GetDC"
                ELSE IF small_icons # <<>>
                THEN /\ ex_hicon' = small_icons[1]
                     /\ ex_icons_to_destroy' = Tail(small_icons)
                     /\ ex_pc' = "GetDC"
                ELSE /\ ex_hicon' = 0
                     /\ ex_icons_to_destroy' = <<>>
                     /\ ex_pc' = "returned"
    /\ ex_result' = None
    /\ UNCHANGED <<ex_hdc, ex_hdc_mem, ex_hbmp, ex_image>>

\* An OS call inside the try block raised, or the code returned None early:
\* control passes to the finally block.
ToFinally ==
    /\ ex_pc' = "finally"
    /\ UNCHANGED <<ex_large, ex_small, ex_hicon, ex_icons_to_destroy, ex_hdc,
                   ex_hdc_mem, ex_hbmp, ex_image, ex_live, ex_result>>

GetDCOk ==
    /\ ex_pc = "GetDC"
    /\ ex_hdc' = 1
    /\ ex_live' = ex_live \cup {1}
    /\ ex_pc' = "CreateCompatibleDC"
    /\ UNCHANGED <<ex_large, ex_small, ex_hicon, ex_icons_to_destroy, ex_hdc_mem,
                   ex_hbmp, ex_image, ex_result>>
GetDCFail == ex_pc = "GetDC" /\ ToFinally

CreateCompatibleDCOk ==
    /\ ex_pc = "CreateCompatibleDC"
    /\ ex_hdc_mem' = 2
    /\ ex_live' = ex_live \cup {2}
    /\ ex_pc' = "CreateCompatibleBitmap"
    /\ UNCHANGED <<ex_large, ex_small, ex_hicon, ex_icons_to_destroy, ex_hdc,
                   ex_hbmp, ex_image, ex_result>>
CreateCompatibleDCFail == ex_pc = "CreateCompatibleDC" /\ ToFinally

CreateCompatibleBitmapOk ==
    /\ ex_pc = "CreateCompatibleBitmap"
    /\ ex_hbmp' = 3
    /\ ex_live' = ex_live \cup {3}
    /\ ex_pc' = "DrawIconEx"
    /\ UNCHANGED <<ex_large, ex_small, ex_hicon, ex_icons_to_destroy, ex_hdc,
                   ex_hdc_mem, ex_image, ex_result>>
\* The call raised, or returned a null handle and "if not hbmp" returns None.
CreateCompatibleBitmapFail == ex_pc = "CreateCompatibleBitmap" /\ ToFinally

\* SelectObject(hdc_mem, hbmp) and DrawIconEx.
DrawIconExOk ==
    /\ ex_pc = "DrawIconEx"
    /\ ex_pc' = "GetDIBits"
    /\ UNCHANGED <<ex_large, ex_small, ex_hicon, ex_icons_to_destroy, ex_hdc,
                   ex_hdc_mem, ex_hbmp, ex_image, ex_live, ex_result>>
DrawIconExFail == ex_pc = "DrawIconEx" /\ ToFinally

\* GetDIBits, Image.frombuffer and SelectObject(hdc_mem, old_bmp).
GetDIBitsOk ==
    /\ ex_pc = "GetDIBits"
    /\ ex_image' = "image"
    /\ ex_pc' = "finally"
    /\ UNCHANGED <<ex_large, ex_small, ex_hicon, ex_icons_to_destroy, ex_hdc,
                   ex_hdc_mem, ex_hbmp, ex_live, ex_result>>
\* GetDIBits raised or returned 0: return None.
GetDIBitsFail == ex_pc = "GetDIBits" /\ ToFinally

\* The handles the finally block passes to DeleteObject, DeleteDC, ReleaseDC
\* and DestroyIcon: each of hbmp, hdc_mem, hdc, hicon that is set, and every
\* handle of icons_to_destroy that is set and is not hicon.
FinallyReleasesMut(hbmp, hdc_mem, hdc, hicon, icons_to_destroy) ==
    ({hbmp, hdc_mem, hdc, hicon} \ {0})
FinallyReleases(hbmp, hdc_mem, hdc, hicon, icons_to_destroy) ==
    ({hbmp, hdc_mem, hdc, hicon} \ {0})
    \cup { h \in Range(icons_to_destroy) : h # 0 /\ h # hicon }

Finally ==
    /\ ex_pc = "finally"
    /\ ex_live' = ex_live \ FinallyReleases(ex_hbmp, ex_hdc_mem, ex_hdc, ex_hicon,
                                            ex_icons_to_destroy)
    /\ ex_result' = ex_image
    /\ ex_pc' = "returned"
    /\ UNCHANGED <<ex_large, ex_small, ex_hicon, ex_icons_to_destroy, ex_hdc,
                   ex_hdc_mem, ex_hbmp, ex_image>>

(***************************************************************************)
(* Text.  A text is a sequence of tokens: one-character strings such as    *)
(* ",", " ", "-", "2", and a few multi-character atoms (".exe", "%V%",     *)
(* "book_") that no operation below looks inside.                          *)
(***************************************************************************)
Digits == <<"0", "1", "2", "3", "4", "5", "6", "7", "8", "9">>
IsDigit(ch) == \E d \in 1..10 : Digits[d] = ch
DigitValue(ch) == (CHOOSE d \in 1..10 : Digits[d] = ch) - 1

\* str.strip(): leading and trailing blanks removed.
RECURSIVE LStrip(_)
LStrip(t) == IF t # <<>> /\ Head(t) = " " THEN LStrip(Tail(t)) ELSE t
RECURSIVE RStrip(_)
RStrip(t) ==
    IF t # <<>> /\ t[Len(t)] = " " THEN RStrip(SubSeq(t, 1, Len(t) - 1)) ELSE t
Strip(t) == RStrip(LStrip(t))

HasComma(t) == \E i \in 1..Len(t) : t[i] = ","
FirstComma(t) == CHOOSE i \in 1..Len(t) : t[i] = "," /\ \A j \in 1..(i - 1) : t[j] # ","
LastComma(t) == CHOOSE i \in 1..Len(t) : t[i] = "," /\ \A j \in (i + 1)..Len(t) : t[j] # ","

\* str.split(','): the list of the pieces between commas.
RECURSIVE Split(_)
Split(t) ==
    IF ~HasComma(t) THEN <<t>>
    ELSE <<SubSeq(t, 1, FirstComma(t) - 1)>> \o Split(SubSeq(t, FirstComma(t) + 1, Len(t)))

\* str.rsplit(',', 1) of a text that holds a comma: the text before the last
\* comma and the text after it.
RSplit1(t) == <<SubSeq(t, 1, LastComma(t) - 1), SubSeq(t, LastComma(t) + 1, Len(t))>>

\* f"{int(n)}": the decimal text of an integer.
RECURSIVE NatText(_)
NatText(n) == IF n < 10 THEN <<Digits[n + 1]>> ELSE NatText(n \div 10) \o <<Digits[(n % 10) + 1]>>
IntText(n) == IF n < 0 THEN <<"-">> \o NatText(-n) ELSE NatText(n)

\* int(text): blanks stripped, an optional sign, then one or more digits;
\* anything else raises ValueError (ok is FALSE).
RECURSIVE DigitsValue(_)
DigitsValue(t) ==
    IF t = <<>> THEN 0 ELSE 10 * DigitsValue(SubSeq(t, 1, Len(t) - 1)) + DigitValue(t[Len(t)])
AllDigits(t) == t # <<>> /\ \A i \in 1..Len(t) : IsDigit(t[i])
ParseInt(text) ==
    LET t == Strip(text)
        signed == t # <<>> /\ Head(t) \in {"-", "+"}
        body == IF signed THEN Tail(t) ELSE t
    IN  IF AllDigits(body)
        THEN [ok |-> TRUE,
              value |-> IF signed /\ Head(t) = "-" THEN -DigitsValue(body) ELSE DigitsValue(body)]
        ELSE [ok |-> FALSE, value |-> 0]

(***************************************************************************)
(* The backup ledger: load_backup and save_backup.  A mapping is a         *)
(* sequence of <<key, value>> pairs in insertion order, as a Python dict;  *)
(* the file is a sequence of JSON tokens, so a write that stops half way*)
(* leaves a prefix of the document on disk.                                *)
(***************************************************************************)
Tok(kind, val) == [kind |-> kind, val |-> val]
Punct(ch) == Tok("punct", <<ch>>)

\* json.dump(backup_data, f): "{" key ":" value "," ... "}".
RECURSIVE DumpItems(_)
DumpItems(items) ==
    IF items = <<>> THEN <<>>
    ELSE <<Tok("key", <<items[1][1]>>), Punct(":"), Tok("str", items[1][2])>>
         \o (IF Len(items) > 1 THEN <<Punct(",")>> ELSE <<>>)
         \o DumpItems(Tail(items))
JsonDump(data) == <<Punct("{")>> \o DumpItems(data) \o <<Punct("}")>>

IsPunct(tok, ch) == tok.kind = "punct" /\ tok.val = <<ch>>

\* json.load(f): the mapping of a complete document; any other token
\* sequence raises JSONDecodeError (ok is FALSE).
RECURSIVE ParseItems(_)
ParseItems(toks) ==
    \* toks: what follows "{" or ",", up to and including the closing "}".
    IF Len(toks) < 4 THEN [ok |-> FALSE, items |-> <<>>]
    ELSE IF ~(toks[1].kind = "key" /\ IsPunct(toks[2], ":") /\ toks[3].kind = "str")
    THEN [ok |-> FALSE, items |-> <<>>]
    ELSE LET item == <<toks[1].val[1], toks[3].val>>
         IN  IF Len(toks) = 4
             THEN [ok |-> IsPunct(toks[4], "}"), items |-> <<item>>]
             ELSE IF ~IsPunct(toks[4], ",") THEN [ok |-> FALSE, items |-> <<>>]
             ELSE LET rest == ParseItems(SubSeq(toks, 5, Len(toks)))
                  IN  [ok |-> rest.ok, items |-> <<item>> \o rest.items]
JsonLoad(toks) ==
    IF Len(toks) < 2 \/ ~IsPunct(toks[1], "{") THEN [ok |-> FALSE, items |-> <<>>]
    ELSE IF Len(toks) = 2 THEN [ok |-> IsPunct(toks[2], "}"), items |-> <<>>]
    ELSE ParseItems(Tail(toks))

\* The ledger file: present or not, and its tokens.
NoFile == [exists |-> FALSE, content |-> <<>>]
FileOf(toks) == [exists |-> TRUE, content |-> toks]

load_backup_mut(f) ==
    IF f.exists /\ JsonLoad(f.content).ok
    THEN LET items == JsonLoad(f.content).items
         IN  SubSeq(items, 1, Len(items) - 1)
    ELSE <<>>
load_backup(f) ==
    IF f.exists
    THEN IF JsonLoad(f.content).ok THEN JsonLoad(f.content).items ELSE <<>>
    ELSE <<>>

\* save_backup(backup_data) by how far it gets:
\*   "ok"      the document is written and the file closed;
\*   "no_open" ensure_dir_exists or open() raised: the file is as it was;
\*   "partial" open(BACKUP_FILE, 'w') truncated the file and the write raised
\*             after `written` of the document's tokens (the model takes the
\*             two ends: nothing written, and all but the closing brace).
\* Every failure is caught and logged by save_backup itself.
SaveOutcome(kind, written) == [kind |-> kind, written |-> written]
SaveOutcomes(data) ==
    {SaveOutcome("ok", 0), SaveOutcome("no_open", 0)}
    \cup { SaveOutcome("partial", k) : k \in {0, Len(JsonDump(data)) - 1} }
save_backup(f, data, outcome) ==
    IF outcome.kind = "ok" THEN FileOf(JsonDump(data))
    ELSE IF outcome.kind = "no_open" THEN f
    ELSE FileOf(SubSeq(JsonDump(data), 1, outcome.written))

\* dict lookup and item assignment.
HasKey(data, key) == \E i \in 1..Len(data) : data[i][1] = key
ValueOf(data, key) ==
    data[CHOOSE i \in 1..Len(data) : data[i][1] = key][2]
SetItem(data, key, value) ==
    IF HasKey(data, key)
    THEN [i \in 1..Len(data) |->
            IF data[i][1] = key THEN <<key, value>> ELSE data[i]]
    ELSE Append(data, <<key, value>>)

(***************************************************************************)
(* The desktop, the file system and the shortcuts.                      *)
(***************************************************************************)
Shortcuts == 1..NumShortcuts

\* The shortcut's file name without ".lnk".  A ledger key (shortcut_path) is
\* the shortcut's number, standing for DESKTOP_PATH\<name>.lnk.
ShortcutNames == << <<"a", "b">>, <<"a", "-", "b">>, <<"c">>, <<"c", "!">>, <<"d">> >>
NameOf(sc) == ShortcutNames[((sc - 1) % Len(ShortcutNames)) + 1]

\* c.isalnum() or c in (' ', '_')
IsSafeChar(ch) == ch \in {"a", "b", "c", "d", " ", "_"} \/ IsDigit(ch)
\* "".join(c for c in shortcut_name[:-4] if ...).rstrip()
safe_name(name) == RStrip(SelectSeq(name, IsSafeChar))
\* os.path.join(GENERATED_ICONS_DIR, f"book_{safe_name}.ico")
generated_icon_path(sc) == <<"book_">> \o safe_name(NameOf(sc)) \o <<".ico">>
GenPaths == { generated_icon_path(sc) : sc \in Shortcuts }

\* Icon files that exist before any run; g.exe does not exist.
StaticFiles == { <<"x", ".exe">>, <<"a", ",", "b", ".exe">>, <<"i", ".ico">>,
                 <<"v", ".dll">>, <<"t", ".exe">>, <<"n", ".txt">> }

\* A generated icon file: absent, or written with the cover painted in a colour.
\* The colour of an icon is named by the file it was derived from.
GenAbsent == [state |-> "absent", color |-> <<>>]
GenIcon(color) == [state |-> "ok", color |-> color]

\* os.path.exists
Exists(path, gen) ==
    \/ path \in StaticFiles
    \/ path \in GenPaths /\ gen[path].state # "absent"

\* os.path.expandvars: %V% stands for an environment variable whose value is v.
ExpandVars(path) == [i \in 1..Len(path) |-> IF path[i] = "%V%" THEN "v" ELSE path[i]]

\* icon_path.lower().endswith(...)
FileKind(path) ==
    IF path = <<>> THEN "other"
    ELSE IF path[Len(path)] = ".ico" THEN "ico"
    ELSE IF path[Len(path)] \in {".exe", ".dll"} THEN "pe"
    ELSE "other"

\* The dominant colour of the icon at a path.
ColorAt(path, gen) == IF path \in GenPaths THEN gen[path].color ELSE path

\* lnk.icon_location: the (path, index) pair winshell returns, or the
\* "path,index" string form that get_original_icon_info also accepts.
Pair(path, index) == [form |-> "pair", path |-> path, index |-> index, text |-> <<>>]
StrLoc(text) == [form |-> "str", path |-> <<>>, index |-> 0, text |-> text]

\* lnk.path, the shortcut's target: even-numbered shortcuts point at a file
\* that is gone.
TargetOf(sc) == IF sc % 2 = 0 THEN <<"g", ".exe">> ELSE <<"t", ".exe">>

\* Icon locations a shortcut may have before the first run.
InitialIconLocations ==
    { Pair(<<"x", ".exe">>, 2),                 \* an embedded icon
      Pair(<<"a", ",", "b", ".exe">>, -1),      \* a comma in the path, a resource id
      Pair(<<"i", ".ico">>, 0),                 \* a standalone icon file
      Pair(<<"g", ".exe">>, 0),                 \* a file that is gone
      Pair(<<>>, 0),                            \* no explicit icon
      Pair(<<"%V%", ".dll">>, 0),               \* an environment variable
      Pair(<<"n", ".txt">>, 0),                 \* an unsupported file type
      StrLoc(<<"x", ".exe", ",", " ", "2">>),   \* string form
      StrLoc(<<"x", ".exe", ",", "q">>) }       \* string form, index not a number

(***************************************************************************)
(* get_original_icon_info.                                                 *)
(***************************************************************************)
InfoNone(parse_error) ==
    [ok |-> FALSE, path |-> <<>>, index |-> 0, parse_error |-> parse_error]
\* The tail of the function: expand, check existence, return.
ResolveInfo(path, index, gen) ==
    IF Exists(ExpandVars(path), gen)
    THEN [ok |-> TRUE, path |-> ExpandVars(path), index |-> index, parse_error |-> FALSE]
    ELSE InfoNone(FALSE)

\* raises: winshell.shortcut() or the write on leaving the with block raised.
get_original_icon_info(icon_location, target_path, gen, raises) ==
    LET is_str == icon_location.form = "str" /\ icon_location.text # <<>>
        parts == Split(icon_location.text)
        parsed == IF is_str /\ Len(parts) > 1 THEN ParseInt(parts[2])
                  ELSE [ok |-> TRUE, value |-> 0]
        path == IF icon_location.form = "pair" THEN icon_location.path
                ELSE IF is_str THEN Strip(parts[1]) ELSE <<>>
        index == IF icon_location.form = "pair" THEN icon_location.index
                 ELSE parsed.value
    IN  IF raises THEN InfoNone(FALSE)
        ELSE IF ~parsed.ok THEN InfoNone(TRUE)   \* ValueError, caught by except Exception
        ELSE IF path = <<>> THEN
             IF target_path # <<>> /\ Exists(target_path, gen)
             THEN ResolveInfo(target_path, 0, gen)
             ELSE InfoNone(FALSE)
        ELSE ResolveInfo(path, index, gen)

(***************************************************************************)
(* apply_book_icons: the body of the loop, for one shortcut.  `fail` names *)
(* the stage that fails for a reason outside the data ("none" when every   *)
(* call succeeds); failures that follow from the data (a missing file,  *)
(* an unsupported type) happen whatever `fail` is.                         *)
(***************************************************************************)
FailPoints == {"none", "read", "extract", "analyze", "composite", "set_pre", "set_post"}

\* f"{orig_icon_path},{int(orig_icon_index)}"
IconLocationStr(path, index) == path \o <<",">> \o IntText(index)

\* StoreBackup that stores an entry only for a shortcut that has none.
StoreBackupMut(data, shortcut_path, orig_icon_location_str) ==
    IF ~HasKey(data, shortcut_path)
    THEN SetItem(data, shortcut_path, orig_icon_location_str)
    ELSE data
\* "Store backup if not already there or different".
StoreBackup(data, shortcut_path, orig_icon_location_str) ==
    IF \/ ~HasKey(data, shortcut_path)
       \/ ValueOf(data, shortcut_path) # orig_icon_location_str
    THEN SetItem(data, shortcut_path, orig_icon_location_str)
    ELSE data

\* extract_icon_image returns an image: the type is supported, the file
\* decodes, and no OS or decoder call fails.
ExtractsImage(path, gen, fail) ==
    /\ FileKind(path) # "other"
    /\ fail # "extract"

\* How an iteration that stopped at `stage` is counted: "done" is the
\* processed_count += 1 branch, every other stage a skipped_count += 1 branch.
StageOutcomeMut(stage) ==
    IF stage = "done" THEN "DONE" ELSE IF stage = "composite" THEN "-" ELSE "SKIPPED"
StageOutcome(stage) == IF stage = "done" THEN "DONE" ELSE "SKIPPED"

VisitResult(stage, info, data, gen, icon_location) ==
    [outcome |-> StageOutcome(stage), stage |-> stage, info |-> info,
     data |-> data, gen |-> gen, icon_location |-> icon_location]

apply_one(sc, icon_location, data, gen, fail) ==
    LET info == get_original_icon_info(icon_location, TargetOf(sc), gen, fail = "read")
        bd1 == StoreBackup(data, sc, IconLocationStr(info.path, info.index))
        gpath == generated_icon_path(sc)
        gen1 == [gen EXCEPT ![gpath] = GenIcon(ColorAt(info.path, gen))]
    IN  IF ~info.ok
        THEN VisitResult("read", info, data, gen, icon_location)
        ELSE IF ~ExtractsImage(info.path, gen, fail)
        THEN VisitResult("extract", info, bd1, gen, icon_location)
        ELSE IF fail = "analyze"
        THEN VisitResult("analyze", info, bd1, gen, icon_location)
        ELSE IF fail = "composite"
        THEN VisitResult("composite", info, bd1, gen, icon_location)
        ELSE IF fail = "set_pre"
        THEN VisitResult("set", info, bd1, gen1, icon_location)
        ELSE IF fail = "set_post"
        THEN VisitResult("set", info, bd1, gen1, Pair(gpath, 0))
        ELSE VisitResult("done", info, bd1, gen1, Pair(gpath, 0))

(***************************************************************************)
(* revert_icons: the body of the loop, for one ledger entry.               *)
(***************************************************************************)
RevertFailPoints == {"none", "write", "utime"}

\* Lines 320-329: the (path, index) parsed from the ledger string.
parse_backup_str_mut(orig_icon_location_str) ==
    LET has == HasComma(orig_icon_location_str)
        sp == RSplit1(orig_icon_location_str)
        parsed == IF has THEN ParseInt(sp[2]) ELSE [ok |-> TRUE, value |-> 0]
    IN  IF has
        THEN [path |-> sp[1], index |-> parsed.value, parse_error |-> ~parsed.ok]
        ELSE [path |-> orig_icon_location_str, index |-> 0, parse_error |-> FALSE]
parse_backup_str(orig_icon_location_str) ==
    LET has == HasComma(orig_icon_location_str)
        sp == RSplit1(orig_icon_location_str)
        parsed == IF has THEN ParseInt(sp[2]) ELSE [ok |-> TRUE, value |-> 0]
    IN  IF has /\ parsed.ok
        THEN [path |-> sp[1], index |-> parsed.value, parse_error |-> FALSE]
        ELSE [path |-> orig_icon_location_str, index |-> 0, parse_error |-> has]

RevertResult(result, parsed, reached, icon_location) ==
    [result |-> result, parsed |-> parsed, reached |-> reached,
     icon_location |-> icon_location]

\* revert_one with the except branch of the loop counting the entry as
\* reverted.
revert_one_mut(present, icon_location, orig_icon_location_str, fail) ==
    LET parsed == parse_backup_str(orig_icon_location_str)
        new == Pair(Strip(parsed.path), parsed.index)
        unparsed == [path |-> <<>>, index |-> 0, parse_error |-> FALSE]
    IN  IF ~present THEN RevertResult("FAILED", unparsed, FALSE, icon_location)
        ELSE IF fail = "write" THEN RevertResult("REVERTED", parsed, TRUE, icon_location)
        ELSE IF fail = "utime" THEN RevertResult("FAILED", parsed, TRUE, new)
        ELSE RevertResult("REVERTED", parsed, TRUE, new)

\* present: os.path.exists(shortcut_path).  "write": winshell.shortcut() or
\* the write on leaving the with block raised; "utime": os.utime raised after
\* the shortcut was written.
revert_one(present, icon_location, orig_icon_location_str, fail) ==
    LET parsed == parse_backup_str(orig_icon_location_str)
        new == Pair(Strip(parsed.path), parsed.index)
        unparsed == [path |-> <<>>, index |-> 0, parse_error |-> FALSE]
    IN  IF ~present THEN RevertResult("FAILED", unparsed, FALSE, icon_location)
        ELSE IF fail = "write" THEN RevertResult("FAILED", parsed, TRUE, icon_location)
        ELSE IF fail = "utime" THEN RevertResult("FAILED", parsed, TRUE, new)
        ELSE RevertResult("REVERTED", parsed, TRUE, new)

(***************************************************************************)
(* The runs: apply_book_icons and revert_icons, one action per loop        *)
(* iteration, and one for each way a run starts and ends.                  *)
(***************************************************************************)
NoVisit == [op |-> "none", key |-> 0, outcome |-> "-", stage |-> "-",
            has_index |-> FALSE, index |-> 0, path |-> <<>>, parse_error |-> FALSE]

\* get_desktop_shortcuts: the .lnk files on the desktop, in directory order
\* (taken to be ascending).
RECURSIVE SortedSeq(_)
SortedSeq(set) ==
    IF set = {} THEN <<>>
    ELSE LET m == CHOOSE x \in set : \A y \in set : x <= y
         IN  <<m>> \o SortedSeq(set \ {m})
get_desktop_shortcuts(present) == SortedSeq(present)

\* A ledger left by an earlier use of the tool: an entry written without an
\* index for a path that holds a comma, and an entry for a shortcut (number 0)
\* that is no longer on the desktop.
LegacyLedger == << <<1, <<"a", ",", "b", ".exe">>>>, <<0, <<"x", ".exe", ",", "2">>>> >>

\* The icon of the shortcuts whose icon the model does not vary.
DefaultIcon(sc) ==
    IF sc % 3 = 1 THEN Pair(<<"x", ".exe">>, 2)
    ELSE IF sc % 3 = 2 THEN Pair(<<"i", ".ico">>, 0)
    ELSE Pair(<<"a", ",", "b", ".exe">>, -1)

OrIdle ==
    /\ template_exists = FALSE /\ sc_present = {} /\ sc_icon = <<>>
    /\ gen_files = <<>> /\ backup_file = NoFile
    /\ pc = "off" /\ runs = 0 /\ faults = 0 /\ shortcuts = <<>> /\ pos = 0 /\ backup_data = <<>>
    /\ processed_count = 0 /\ skipped_count = 0 /\ reverted_count = 0 /\ failed_count = 0
    /\ orig_icon = <<>> /\ backed_up = {} /\ visits = <<>> /\ sc_outcome = <<>>
    /\ last_visit = NoVisit /\ rv_results = <<>>
    /\ enumerated = FALSE /\ loaded = FALSE /\ save_calls = 0
    /\ file_at_start = NoFile /\ icon_at_start = <<>> /\ gen_at_start = <<>>
    /\ last_save = "none" /\ file_before_save = NoFile /\ saved_data = <<>>

OrInit ==
    /\ template_exists \in BOOLEAN
    /\ \E k \in 0..NumShortcuts : sc_present = 1..k
    /\ sc_icon \in [Shortcuts -> InitialIconLocations]
    /\ \A sc \in Shortcuts : (sc # 1 \/ sc \notin sc_present) => sc_icon[sc] = DefaultIcon(sc)
    /\ gen_files = [g \in GenPaths |-> GenAbsent]
    /\ backup_file \in {NoFile, FileOf(JsonDump(LegacyLedger))}
    /\ pc = "idle" /\ runs = 0 /\ faults = 0
    /\ shortcuts = <<>> /\ pos = 0 /\ backup_data = <<>>
    /\ processed_count = 0 /\ skipped_count = 0 /\ reverted_count = 0 /\ failed_count = 0
    /\ orig_icon = sc_icon /\ backed_up = {}
    /\ visits = [sc \in Shortcuts |-> 0] /\ sc_outcome = [sc \in Shortcuts |-> "-"]
    /\ last_visit = NoVisit /\ rv_results = <<>>
    /\ enumerated = FALSE /\ loaded = FALSE /\ save_calls = 0
    /\ file_at_start = backup_file /\ icon_at_start = sc_icon /\ gen_at_start = gen_files
    /\ last_save = "none" /\ file_before_save = NoFile /\ saved_data = <<>>

NotOr == <<an_vars, cp_vars, ex_vars>>

\* os.path.exists(TEMPLATE_PATH), the check before anything else is done.
template_found_mut(exists) == TRUE
template_found(exists) == exists

\* The for loop has gone through the whole list.
LoopDoneMut(position, list) == position > 1
LoopDone(position, list) == position > Len(list)

\* What every run sets when it begins.
BeginRun ==
    /\ pc = "idle" /\ runs < MaxRuns
    /\ file_at_start' = backup_file /\ icon_at_start' = sc_icon /\ gen_at_start' = gen_files
    /\ visits' = [sc \in Shortcuts |-> 0] /\ sc_outcome' = [sc \in Shortcuts |-> "-"]
    /\ last_visit' = NoVisit /\ rv_results' = <<>>
    /\ save_calls' = 0
    /\ processed_count' = 0 /\ skipped_count' = 0
    /\ reverted_count' = 0 /\ failed_count' = 0
    /\ last_save' = "none" /\ file_before_save' = NoFile /\ saved_data' = <<>>
    /\ UNCHANGED <<env_vars, runs, faults, orig_icon, backed_up, NotOr>>

\* apply: the template is missing, sys.exit(1).
ApplyAbort ==
    /\ BeginRun
    /\ ~template_found(template_exists)
    /\ pc' = "apply_aborted"
    /\ enumerated' = FALSE /\ loaded' = FALSE
    /\ shortcuts' = <<>> /\ pos' = 0 /\ backup_data' = <<>>

\* apply: no .lnk on the desktop, return before load_backup.
ApplyEmpty ==
    /\ BeginRun
    /\ template_found(template_exists)
    /\ get_desktop_shortcuts(sc_present) = <<>>
    /\ pc' = "apply_empty"
    /\ enumerated' = TRUE /\ loaded' = FALSE
    /\ shortcuts' = <<>> /\ pos' = 0 /\ backup_data' = <<>>

\* apply: template present, shortcuts found, ledger loaded; the loop begins.
ApplyStart ==
    /\ BeginRun
    /\ template_found(template_exists)
    /\ get_desktop_shortcuts(sc_present) # <<>>
    /\ pc' = "apply_loop"
    /\ enumerated' = TRUE /\ loaded' = TRUE
    /\ shortcuts' = get_desktop_shortcuts(sc_present)
    /\ pos' = 1
    /\ backup_data' = load_backup(backup_file)

\* apply: one iteration of "for shortcut_path in shortcuts".
ApplyVisit ==
    /\ pc = "apply_loop" /\ pos <= Len(shortcuts)
    /\ \E fail \in FailPoints, sc \in {shortcuts[pos]} :
       \E r \in {apply_one(sc, sc_icon[sc], backup_data, gen_files, fail)} :
             \* a failure is one only where the stage would have succeeded
             /\ fail # "none" =>
                   /\ faults < MaxFaults
                   /\ r # apply_one(sc, sc_icon[sc], backup_data, gen_files, "none")
             /\ faults' = IF fail # "none" THEN faults + 1 ELSE faults
             /\ backup_data' = r.data
             /\ gen_files' = r.gen
             /\ sc_icon' = [sc_icon EXCEPT ![sc] = r.icon_location]
             /\ processed_count' = processed_count + (IF r.outcome = "DONE" THEN 1 ELSE 0)
             /\ skipped_count' = skipped_count + (IF r.outcome = "SKIPPED" THEN 1 ELSE 0)
             /\ visits' = [visits EXCEPT ![sc] = @ + 1]
             /\ sc_outcome' = [sc_outcome EXCEPT ![sc] = r.outcome]
             /\ backed_up' = IF r.data # backup_data THEN backed_up \cup {sc} ELSE backed_up
             /\ last_visit' = [op |-> "apply", key |-> sc, outcome |-> r.outcome,
                               stage |-> r.stage, has_index |-> r.info.ok,
                               index |-> r.info.index, path |-> r.info.path,
                               parse_error |-> r.info.parse_error]
    /\ pos' = pos + 1
    /\ UNCHANGED <<template_exists, sc_present, backup_file, pc, runs, shortcuts,
                   reverted_count, failed_count, orig_icon, rv_results, enumerated,
                   loaded, save_calls, file_at_start, icon_at_start, gen_at_start,
                   last_save, file_before_save, saved_data, NotOr>>

\* apply: the loop is over, save_backup(backup_data) and the summary.
ApplyFinish ==
    /\ pc = "apply_loop" /\ LoopDone(pos, shortcuts)
    /\ \E how \in SaveOutcomes(backup_data) :
         /\ how.kind # "ok" => faults < MaxFaults
         /\ faults' = IF how.kind # "ok" THEN faults + 1 ELSE faults
         /\ backup_file' = save_backup(backup_file, backup_data, how)
         /\ last_save' = how.kind
    /\ file_before_save' = backup_file
    /\ saved_data' = backup_data
    /\ save_calls' = save_calls + 1
    /\ pc' = "apply_done"
    /\ UNCHANGED <<template_exists, sc_present, sc_icon, gen_files, runs, shortcuts,
                   pos, backup_data, processed_count, skipped_count, reverted_count,
                   failed_count, orig_icon, backed_up, visits, sc_outcome, last_visit,
                   rv_results, enumerated, loaded, file_at_start, icon_at_start,
                   gen_at_start, NotOr>>

\* revert: load_backup returned nothing, "No backup data found".
RevertNoData ==
    /\ BeginRun
    /\ load_backup(backup_file) = <<>>
    /\ pc' = "revert_nodata"
    /\ enumerated' = FALSE /\ loaded' = TRUE
    /\ shortcuts' = <<>> /\ pos' = 0 /\ backup_data' = <<>>

\* revert: the ledger holds entries; the loop over backup_data.items() begins.
RevertStart ==
    /\ BeginRun
    /\ load_backup(backup_file) # <<>>
    /\ pc' = "revert_loop"
    /\ enumerated' = FALSE /\ loaded' = TRUE
    /\ shortcuts' = <<>> /\ pos' = 1
    /\ backup_data' = load_backup(backup_file)

\* revert: one iteration of the loop over the ledger's entries.
RevertVisit ==
    /\ pc = "revert_loop" /\ pos <= Len(backup_data)
    /\ \E fail \in RevertFailPoints, key \in {backup_data[pos][1]} :
       \E present \in {key \in sc_present} :
       \E old \in {IF present THEN sc_icon[key] ELSE DefaultIcon(key)} :
       \E r \in {revert_one(present, old, backup_data[pos][2], fail)} :
             /\ fail # "none" =>
                   /\ faults < MaxFaults
                   /\ r # revert_one(present, old, backup_data[pos][2], "none")
             /\ faults' = IF fail # "none" THEN faults + 1 ELSE faults
             /\ sc_icon' = IF present THEN [sc_icon EXCEPT ![key] = r.icon_location]
                           ELSE sc_icon
             /\ reverted_count' = reverted_count + (IF r.result = "REVERTED" THEN 1 ELSE 0)
             /\ failed_count' = failed_count + (IF r.result = "FAILED" THEN 1 ELSE 0)
             /\ rv_results' = Append(rv_results, r.result)
             /\ last_visit' = [op |-> "revert", key |-> key, outcome |-> r.result,
                               stage |-> fail, has_index |-> r.reached,
                               index |-> r.parsed.index, path |-> r.parsed.path,
                               parse_error |-> r.parsed.parse_error]
    /\ pos' = pos + 1
    /\ UNCHANGED <<template_exists, sc_present, gen_files, backup_file, pc, runs,
                   shortcuts, backup_data, processed_count, skipped_count, orig_icon,
                   backed_up, visits, sc_outcome, enumerated, loaded, save_calls,
                   file_at_start, icon_at_start, gen_at_start, last_save,
                   file_before_save, saved_data, NotOr>>

\* revert: the loop is over, the summary is printed.
RevertFinish ==
    /\ pc = "revert_loop" /\ LoopDone(pos, backup_data)
    /\ pc' = "revert_done"
    /\ UNCHANGED <<env_vars, runs, faults, shortcuts, pos, backup_data, processed_count,
                   skipped_count, reverted_count, failed_count, obs_vars, NotOr>>

\* The process ends; the next run starts from the files on disk alone.
Exit ==
    /\ pc \in {"apply_aborted", "apply_empty", "apply_done", "revert_nodata", "revert_done"}
    /\ pc' = "idle"
    /\ runs' = runs + 1
    /\ shortcuts' = <<>> /\ pos' = 0 /\ backup_data' = <<>>
    /\ processed_count' = 0 /\ skipped_count' = 0
    /\ reverted_count' = 0 /\ failed_count' = 0
    /\ visits' = [sc \in Shortcuts |-> 0] /\ sc_outcome' = [sc \in Shortcuts |-> "-"]
    /\ last_visit' = NoVisit /\ rv_results' = <<>>
    /\ enumerated' = FALSE /\ loaded' = FALSE /\ save_calls' = 0
    /\ file_at_start' = backup_file /\ icon_at_start' = sc_icon
    /\ gen_at_start' = gen_files
    /\ last_save' = "none" /\ file_before_save' = NoFile /\ saved_data' = <<>>
    /\ UNCHANGED <<env_vars, faults, orig_icon, backed_up, NotOr>>

(***************************************************************************)
(* Specifications.                                                         *)
(***************************************************************************)
InitAnalyzer == AnInit /\ CpIdle /\ ExIdle /\ OrIdle
NextAnalyzer == Analyze /\ UNCHANGED <<cp_vars, ex_vars, or_vars>>
SpecAnalyzer == InitAnalyzer /\ [][NextAnalyzer]_vars

InitCompositor == CpInit /\ AnIdle /\ ExIdle /\ OrIdle
NextCompositor ==
    \/ CompositeOk /\ UNCHANGED <<an_vars, ex_vars, or_vars>>
    \/ CompositeFail /\ UNCHANGED <<an_vars, ex_vars, or_vars>>
SpecCompositor == InitCompositor /\ [][NextCompositor]_vars

InitExtract == ExInit /\ AnIdle /\ CpIdle /\ OrIdle
NotEx == <<an_vars, cp_vars, or_vars>>
NextExtract ==
    \/ ExtractIconExFail /\ UNCHANGED NotEx
    \/ ExtractIconExOk /\ UNCHANGED NotEx
    \/ GetDCOk /\ UNCHANGED NotEx
    \/ GetDCFail /\ UNCHANGED NotEx
    \/ CreateCompatibleDCOk /\ UNCHANGED NotEx
    \/ CreateCompatibleDCFail /\ UNCHANGED NotEx
    \/ CreateCompatibleBitmapOk /\ UNCHANGED NotEx
    \/ CreateCompatibleBitmapFail /\ UNCHANGED NotEx
    \/ DrawIconExOk /\ UNCHANGED NotEx
    \/ DrawIconExFail /\ UNCHANGED NotEx
    \/ GetDIBitsOk /\ UNCHANGED NotEx
    \/ GetDIBitsFail /\ UNCHANGED NotEx
    \/ Finally /\ UNCHANGED NotEx
SpecExtract == InitExtract /\ [][NextExtract]_vars

Init == OrInit /\ AnIdle /\ CpIdle /\ ExIdle
Next ==
    \/ ApplyAbort \/ ApplyEmpty \/ ApplyStart \/ ApplyVisit \/ ApplyFinish
    \/ RevertNoData \/ RevertStart \/ RevertVisit \/ RevertFinish
    \/ Exit
Spec == Init /\ [][Next]_vars

(***************************************************************************)
(* Claims about get_dominant_color (checked under SpecAnalyzer).           *)
(***************************************************************************)
\* The filter as the specification words it: near-grayscale when the largest
\* pairwise channel difference is below 15, too dark, too light, low spread.
SpecDisqualified(rgb) ==
    \/ Max3(rgb) - Min3(rgb) < 15
    \/ Sum3(rgb) < 50
    \/ Sum3(rgb) > 700
    \/ Max3(rgb) - Min3(rgb) <= 10

\* The filter as the loop applies it: grayscale when both the R-G and the G-B
\* difference are below 15 (R-B is not looked at).
CodeDisqualified(rgb) ==
    \/ (Abs(rgb[1] - rgb[2]) < 15 /\ Abs(rgb[2] - rgb[3]) < 15)
    \/ Sum3(rgb) < 50
    \/ Sum3(rgb) > 700
    \/ Max3(rgb) - Min3(rgb) <= 10

\* C5 as stated: when some candidate passes the specification's filter (largest
\* pairwise channel difference >= 15, 50 <= sum <= 700, spread > 10), the
\* returned colour passes that filter too.
CE_C5 ==
    (/\ an_pc = "done"
     /\ \E i \in 1..Len(an_colors) : ~SpecDisqualified(an_colors[i].rgb))
    => (an_result # None /\ ~SpecDisqualified(an_result))

\* C5 as amended: with near-grayscale meaning |R-G| < 15 and |G-B| < 15, when
\* some candidate is not disqualified the returned colour is not disqualified.
Thm_C5 ==
    (/\ an_pc = "done"
     /\ \E i \in 1..Len(an_colors) : ~CodeDisqualified(an_colors[i].rgb))
    => (an_result # None /\ ~CodeDisqualified(an_result))

\* A run where the surviving candidate is not the most prominent one: a gray
\* of proportion 2 listed with a red of proportion 1, and the red is returned.
Wit_C5 ==
    /\ an_pc = "done"
    /\ \E i, j \in 1..Len(an_colors) :
          /\ ~CodeDisqualified(an_colors[i].rgb)
          /\ CodeDisqualified(an_colors[j].rgb)
          /\ an_colors[j].proportion > an_colors[i].proportion
    /\ an_result = <<200, 50, 50>>

(***************************************************************************)
(* Claims about create_colored_book_icon (checked under SpecCompositor).   *)
(***************************************************************************)
\* C6: every template pixel whose squared RGB distance to (106,156,66) is
\* below 30*30 comes out as the target colour with the pixel's own alpha, every
\* other pixel (distance exactly 30 included) comes out unchanged, and the
\* output has the template's width and height.
Thm_C6 ==
    (cp_pc = "done" /\ cp_ok)
    => /\ cp_out.width = cp_template.width
       /\ cp_out.height = cp_template.height
       /\ DOMAIN cp_out.data = DOMAIN cp_template.data
       /\ \A xy \in DOMAIN cp_template.data :
            LET p == cp_template.data[xy]
                q == cp_out.data[xy]
                d2 == (p[1] - 106) * (p[1] - 106) + (p[2] - 156) * (p[2] - 156)
                      + (p[3] - 66) * (p[3] - 66)
            IN  /\ q[4] = p[4]
                /\ d2 < 900 => q = <<cp_target[1], cp_target[2], cp_target[3], p[4]>>
                /\ d2 >= 900 => q = p

\* A composited template holding a pixel at distance exactly 30 and a
\* translucent pixel within the tolerance, recoloured to a colour other than
\* the cover colour.
Wit_C6 ==
    /\ cp_pc = "done" /\ cp_ok
    /\ cp_target = <<200, 50, 50>>
    /\ \E xy \in DOMAIN cp_template.data :
          /\ cp_template.data[xy] = <<136, 156, 66, 128>>
          /\ cp_out.data[xy] = <<136, 156, 66, 128>>
    /\ \E xy \in DOMAIN cp_template.data :
          /\ cp_template.data[xy] = <<135, 163, 69, 200>>
          /\ cp_out.data[xy] = <<200, 50, 50, 200>>

(***************************************************************************)
(* Claims about extract_icon_image (checked under SpecExtract).            *)
(***************************************************************************)
\* C8: when the call on an .exe/.dll has returned, on any path, no handle it
\* acquired (icon handles of both lists, screen DC, memory DC, bitmap) is
\* still open.
Thm_C8 == ex_pc = "returned" => ex_live = {}

\* A call that got two large and one small icon handle and all three drawing
\* handles, failed at GetDIBits, and returned None.
Wit_C8 ==
    /\ ex_pc = "returned"
    /\ Len(ex_large) = 2 /\ Len(ex_small) >= 1
    /\ ex_hdc # 0 /\ ex_hdc_mem # 0 /\ ex_hbmp # 0
    /\ ex_result = None

(***************************************************************************)
(* Claims about the runs (checked under Spec).                             *)
(***************************************************************************)
\* C1 as stated, for behaviours in which no OS, disk or decoder call fails: no
\* ledger entry ever refers to a generated book icon, and a revert run that
\* follows apply runs puts every shortcut it reverts, whose entry an apply run
\* wrote, back to the icon reference it had at the start.
CE_C1 ==
    faults = 0 =>
       /\ \A i \in 1..Len(backup_data) :
             parse_backup_str(backup_data[i][2]).path \notin GenPaths
       /\ pc = "revert_done" =>
             \A i \in 1..Len(backup_data) :
                (rv_results[i] = "REVERTED" /\ backup_data[i][1] \in backed_up)
                => sc_icon[backup_data[i][1]] = orig_icon[backup_data[i][1]]

\* C2: while the loop runs, the shortcuts before the loop position have been
\* visited once and are DONE or SKIPPED, the others not at all; when the run
\* ends every enumerated shortcut has been visited exactly once, is DONE or
\* SKIPPED, and processed_count + skipped_count is the number enumerated.
Thm_C2 ==
    /\ pc = "apply_loop" =>
          /\ processed_count + skipped_count = pos - 1
          /\ \A k \in 1..Len(shortcuts) :
                /\ visits[shortcuts[k]] = (IF k < pos THEN 1 ELSE 0)
                /\ k < pos => sc_outcome[shortcuts[k]] \in {"DONE", "SKIPPED"}
    /\ pc = "apply_done" =>
          /\ pos = Len(shortcuts) + 1
          /\ \A k \in 1..Len(shortcuts) :
                /\ visits[shortcuts[k]] = 1
                /\ sc_outcome[shortcuts[k]] \in {"DONE", "SKIPPED"}
          /\ processed_count =
                Cardinality({k \in 1..Len(shortcuts) : sc_outcome[shortcuts[k]] = "DONE"})
          /\ skipped_count =
                Cardinality({k \in 1..Len(shortcuts) : sc_outcome[shortcuts[k]] = "SKIPPED"})
          /\ processed_count + skipped_count = Len(shortcuts)
          /\ Len(shortcuts) = Cardinality(sc_present)

\* A finished run over two shortcuts in which the first was skipped because
\* compositing failed and the second was processed.
Wit_C2 ==
    /\ pc = "apply_done" /\ Len(shortcuts) = 2
    /\ sc_outcome[shortcuts[1]] = "SKIPPED" /\ sc_outcome[shortcuts[2]] = "DONE"
    /\ processed_count = 1 /\ skipped_count = 1
    /\ faults > 0

\* C3 as stated: every apply run that passed the template check has called
\* save_backup exactly once when it ends.
CE_C3 == pc \in {"apply_done", "apply_empty"} => save_calls = 1

\* C3 as amended: a run that passed the template check and found at least one
\* shortcut calls save_backup exactly once, after every shortcut was visited;
\* while the loop runs the ledger file is as it was when the run began; a run
\* that finds no shortcut returns without saving.
Thm_C3 ==
    /\ pc = "apply_loop" => save_calls = 0 /\ backup_file = file_at_start
    /\ pc = "apply_empty" => save_calls = 0 /\ backup_file = file_at_start
    /\ pc = "apply_done" =>
          /\ save_calls = 1
          /\ file_before_save = file_at_start
          /\ \A k \in 1..Len(shortcuts) : visits[shortcuts[k]] = 1

\* A finished run over two shortcuts whose one save rewrote an existing ledger.
Wit_C3 ==
    /\ pc = "apply_done" /\ Len(shortcuts) = 2 /\ save_calls = 1
    /\ last_save = "ok" /\ file_at_start.exists /\ backup_file # file_at_start

\* C4 as stated: after a save_backup call that failed, load_backup returns what
\* it returned before the call.
CE_C4 ==
    (pc = "apply_done" /\ last_save # "ok")
    => load_backup(backup_file) = load_backup(file_before_save)

\* C9: a run that found the template missing has enumerated nothing, loaded
\* and saved nothing, and left every shortcut, every generated icon and the
\* ledger file as they were; and no run gets past the check without template.
Thm_C9 ==
    /\ pc = "apply_aborted" =>
          /\ ~enumerated /\ ~loaded /\ save_calls = 0
          /\ sc_icon = icon_at_start /\ gen_files = gen_at_start
          /\ backup_file = file_at_start
          /\ \A sc \in Shortcuts : visits[sc] = 0
          /\ processed_count = 0 /\ skipped_count = 0
    /\ ~template_exists => pc \notin {"apply_loop", "apply_done", "apply_empty"}

\* An aborted run on a desktop that holds shortcuts and a ledger file.
Wit_C9 == pc = "apply_aborted" /\ sc_present # {} /\ backup_file.exists

\* C10: after a save_backup call that completed, load_backup returns the
\* mapping that was saved; when the file is absent or does not parse,
\* load_backup returns the empty mapping.
Thm_C10 ==
    /\ last_save = "ok" => load_backup(backup_file) = saved_data
    /\ (~backup_file.exists \/ ~JsonLoad(backup_file.content).ok)
          => load_backup(backup_file) = <<>>

\* A completed save of two entries, one of them for a path holding a comma.
Wit_C10 ==
    /\ last_save = "ok" /\ Len(saved_data) >= 2
    /\ \E i \in 1..Len(saved_data) : Len(Split(saved_data[i][2])) > 2

\* C7 as stated: every index produced is non-negative, and an index text that
\* cannot be parsed gives index 0 and never a skipped shortcut or failed entry.
CE_C7 ==
    /\ last_visit.has_index => last_visit.index >= 0
    /\ last_visit.parse_error =>
          /\ last_visit.index = 0
          /\ ~(last_visit.op = "apply" /\ last_visit.stage = "read")
          /\ ~(last_visit.op = "revert" /\ last_visit.stage = "none"
               /\ last_visit.outcome = "FAILED")

\* C7 as amended.  The index is the integer the source holds, negative ones
\* included: in apply the index of the shortcut's (path, index) pair, the
\* number after the first comma of a string-form location, or 0 when the
\* target is used; in revert the number after the last comma of the ledger
\* string, with the text before it as path.  In revert an unparsable index
\* gives index 0 with the whole string as path, and the entry is still written
\* to the shortcut.  In apply an unparsable index of a string-form location
\* makes that one shortcut SKIPPED at the read stage and the loop goes on.
Thm_C7 ==
    /\ (last_visit.op = "apply" /\ last_visit.has_index) =>
          LET loc == icon_at_start[last_visit.key]
          IN  /\ (loc.form = "pair" /\ loc.path # <<>>) => last_visit.index = loc.index
              /\ (loc.form = "pair" /\ loc.path = <<>>) => last_visit.index = 0
              /\ (loc.form = "str" /\ HasComma(loc.text)) =>
                    IntText(last_visit.index)
                       = Strip(SubSeq(loc.text, FirstComma(loc.text) + 1, Len(loc.text)))
    /\ (last_visit.op = "apply" /\ last_visit.parse_error) =>
          /\ ~last_visit.has_index
          /\ last_visit.outcome = "SKIPPED" /\ last_visit.stage = "read"
          /\ sc_icon[last_visit.key] = icon_at_start[last_visit.key]
          /\ pc \in {"apply_loop", "apply_done"} /\ skipped_count >= 1
    /\ (last_visit.op = "revert" /\ last_visit.has_index /\ pc = "revert_loop") =>
          LET str == backup_data[pos - 1][2]
              tail == SubSeq(str, LastComma(str) + 1, Len(str))
          IN  /\ ~HasComma(str) =>
                    /\ ~last_visit.parse_error
                    /\ last_visit.index = 0 /\ last_visit.path = str
              /\ (HasComma(str) /\ ~last_visit.parse_error) =>
                    /\ IntText(last_visit.index) = Strip(tail)
                    /\ last_visit.path = SubSeq(str, 1, LastComma(str) - 1)
              /\ last_visit.parse_error =>
                    /\ HasComma(str)
                    /\ last_visit.index = 0 /\ last_visit.path = str
              /\ last_visit.stage = "none" =>
                    /\ last_visit.outcome = "REVERTED"
                    /\ sc_icon[last_visit.key]
                          = Pair(Strip(last_visit.path), last_visit.index)

\* A revert of a ledger entry whose text after the last comma is no number:
\* the shortcut gets the whole string as path, index 0, and counts as reverted.
Wit_C7 ==
    /\ last_visit.op = "revert" /\ last_visit.parse_error
    /\ last_visit.outcome = "REVERTED" /\ reverted_count >= 1
    /\ sc_icon[last_visit.key] = Pair(<<"a", ",", "b", ".exe">>, 0)

\* C11: in a revert run every ledger entry is attempted once, in order, whatever
\* happened to the entries before it: while the loop runs the entries before the
\* loop position have one result each, at the end there is one result per
\* entry; an entry counted as reverted has left its shortcut with the stored
\* path (stripped) and index, every other entry is counted as failed; and
\* reverted_count + failed_count is the number of entries.
Thm_C11 ==
    pc \in {"revert_loop", "revert_done"} =>
       /\ Len(rv_results) = pos - 1
       /\ pos <= Len(backup_data) + 1
       /\ pc = "revert_done" => Len(rv_results) = Len(backup_data)
       /\ \A i \in 1..Len(rv_results) :
             /\ rv_results[i] \in {"REVERTED", "FAILED"}
             /\ rv_results[i] = "REVERTED" =>
                   LET stored == parse_backup_str(backup_data[i][2])
                   IN  /\ backup_data[i][1] \in sc_present
                       /\ sc_icon[backup_data[i][1]]
                             = Pair(Strip(stored.path), stored.index)
       /\ reverted_count
             = Cardinality({i \in 1..Len(rv_results) : rv_results[i] = "REVERTED"})
       /\ failed_count
             = Cardinality({i \in 1..Len(rv_results) : rv_results[i] = "FAILED"})
       /\ reverted_count + failed_count = Len(rv_results)

\* A finished revert run over three entries: the first failed on the shortcut
\* write, the second names a shortcut that is gone, the third was reverted.
Wit_C11 ==
    /\ pc = "revert_done" /\ Len(backup_data) = 3
    /\ rv_results = <<"FAILED", "FAILED", "REVERTED">>
    /\ backup_data[2][1] \notin sc_present
    /\ last_visit.stage = "none"
    /\ reverted_count = 1 /\ failed_count = 2

\* C12: for a non-empty candidate list the analyzer returns the colour of the
\* first-listed candidate of highest proportion among those that pass the
\* filter, or, when none passes, among all candidates; it returns no colour
\* only for the empty list.
Thm_C12 ==
    an_pc = "done" =>
       /\ an_colors = <<>> => an_result = None
       /\ an_colors # <<>> =>
             LET surviving == {i \in 1..Len(an_colors) :
                                 ~CodeDisqualified(an_colors[i].rgb)}
                 pool == IF surviving # {} THEN surviving ELSE 1..Len(an_colors)
                 top == {i \in pool : \A j \in pool :
                            an_colors[j].proportion <= an_colors[i].proportion}
                 first == CHOOSE i \in top : \A j \in top : i <= j
             IN  an_result # None /\ an_result = an_colors[first].rgb

\* A run on a list with a tie among the candidates that pass the filter: blue
\* listed before red with equal proportion, after a more prominent gray; blue
\* is returned.
Wit_C12 ==
    /\ an_pc = "done" /\ Len(an_colors) = 3
    /\ an_colors[1] = [rgb |-> <<128, 128, 128>>, proportion |-> 2]
    /\ an_colors[2] = [rgb |-> <<50, 50, 200>>, proportion |-> 1]
    /\ an_colors[3] = [rgb |-> <<200, 50, 50>>, proportion |-> 1]
    /\ an_result = <<50, 50, 200>>

\* The entry of a shortcut in a mapping: the set holding its value, or the
\* empty set when the mapping has no entry for it.
EntryOf(data, key) == { data[i][2] : i \in {j \in 1..Len(data) : data[j][1] = key} }

\* C13 as stated: a shortcut that ended SKIPPED in an apply run has the ledger
\* entry it had when the run loaded the ledger.
CE_C13 ==
    pc \in {"apply_loop", "apply_done"} =>
       \A k \in 1..Len(shortcuts) :
          (visits[shortcuts[k]] = 1 /\ sc_outcome[shortcuts[k]] = "SKIPPED")
          => EntryOf(backup_data, shortcuts[k])
                = EntryOf(load_backup(file_at_start), shortcuts[k])

\* C13 as amended.  The ledger entry of a shortcut is set right after its icon
\* reference was read and before extraction, analysis, compositing and the
\* update of the shortcut: a shortcut SKIPPED at the read stage keeps the entry
\* the run as_loaded and its icon; a shortcut that got past the read stage, DONE
\* or SKIPPED at any later stage, has "path,index" of the reference read as its
\* entry, and when it was SKIPPED before the shortcut was written its icon is
\* still the one it had; shortcuts not yet visited keep the loaded entry.
Thm_C13 ==
    (pc \in {"apply_loop", "apply_done"} /\ last_visit.op = "apply") =>
       LET sc == last_visit.key
           as_loaded == load_backup(file_at_start)
       IN  /\ sc = shortcuts[pos - 1]
           /\ last_visit.stage = "read" =>
                 /\ last_visit.outcome = "SKIPPED"
                 /\ EntryOf(backup_data, sc) = EntryOf(as_loaded, sc)
                 /\ sc_icon[sc] = icon_at_start[sc]
           /\ last_visit.stage # "read" =>
                 /\ EntryOf(backup_data, sc)
                       = {last_visit.path \o <<",">> \o IntText(last_visit.index)}
                 /\ last_visit.stage \in {"extract", "analyze", "composite"} =>
                       /\ last_visit.outcome = "SKIPPED"
                       /\ sc_icon[sc] = icon_at_start[sc]
                 /\ last_visit.outcome = "DONE" =>
                       sc_icon[sc] = Pair(generated_icon_path(sc), 0)
           /\ \A k \in pos..Len(shortcuts) :
                 EntryOf(backup_data, shortcuts[k]) = EntryOf(as_loaded, shortcuts[k])

\* A finished run whose last shortcut had no ledger entry, was SKIPPED at
\* extraction with its icon untouched, and whose entry reached the ledger file.
Wit_C13 ==
    /\ pc = "apply_done" /\ last_save = "ok"
    /\ last_visit.op = "apply" /\ last_visit.stage = "extract"
    /\ last_visit.outcome = "SKIPPED"
    /\ sc_icon[last_visit.key] = icon_at_start[last_visit.key]
    /\ EntryOf(load_backup(file_at_start), last_visit.key) = {}
    /\ EntryOf(load_backup(backup_file), last_visit.key) # {}

\* C14 as stated, for runs in which no OS, disk or decoder call fails: when an
\* apply run ends, every shortcut it counted as processed points to a generated
\* icon file painted in the colour of the icon that shortcut had when the run
\* began, and no two shortcuts of the run share a generated icon path.
CE_C14 ==
    (faults = 0 /\ pc = "apply_done") =>
       /\ \A k \in 1..Len(shortcuts) :
             sc_outcome[shortcuts[k]] = "DONE" =>
                LET sc == shortcuts[k]
                    own == get_original_icon_info(icon_at_start[sc], TargetOf(sc),
                                                  gen_at_start, FALSE)
                IN  /\ sc_icon[sc] = Pair(generated_icon_path(sc), 0)
                    /\ gen_files[generated_icon_path(sc)]
                          = GenIcon(ColorAt(own.path, gen_at_start))
       /\ \A j, k \in 1..Len(shortcuts) :
             j # k => generated_icon_path(shortcuts[j]) # generated_icon_path(shortcuts[k])

====
